---- MODULE Spec2Model ----
(***************************************************************************)
(* Model of Dictionary<T> (include/Dictionary.hpp), a trie whose nodes are *)
(* heap-allocated Dictionary objects holding a non-owning T* and a         *)
(* std::map<char, Dictionary*> of children.                                *)
(*                                                                         *)
(* Strings are sequences of byte values 0..255.  Nodes are heap cells      *)
(* named by small integers; the container the caller holds is Root.        *)
(***************************************************************************)
EXTENDS Integers, Sequences, FiniteSets, TLC

\* ---------------------------------------------------------------- bounds
MaxLen == 2          \* longest word the caller inserts
MaxNodes == 2        \* heap cells available for non-root nodes
NumVals == 2         \* caller-owned T objects
ScenarioCells == 8   \* heap cells for non-root nodes in the four-word scenario
LineLen == 2         \* longest line typed on std::cin
MaxLines == 3        \* loop iterations of read_validated_input that are followed

\* ------------------------------------------------------- program constants
nullptr == -1        \* the null pointer (of T* and of Dictionary*)
Root == 0            \* the Dictionary object the caller constructed (this)
CharA == 97          \* 'a'
CharHigh == 200      \* a byte above 127, e.g. a UTF-8 lead byte

Chars == {CharA, CharHigh}
Vals == 1..NumVals
NodeIds == 0..MaxNodes

StrsUpTo(n) == UNION {[1..k -> Chars] : k \in 0..n}
Keys == StrsUpTo(MaxLen)
Strs == StrsUpTo(MaxLen + 1)

EmptyMap == [c \in {} |-> nullptr]

IsPrefix(p, k) == Len(p) <= Len(k) /\ SubSeq(k, 1, Len(p)) = p

\* Dictionary() = default: the member initialisers of object and childs.
NewDictionary == [object |-> nullptr, childs |-> EmptyMap]

VARIABLES
  alive,        \* TRUE between construction and destruction of the container
  charSigned,   \* whether plain char is a signed type in this build
  live,         \* heap cells currently holding a Dictionary node
  childs,       \* childs[n]: the std::map<char, Dictionary*> of node n
  object,       \* object[n]: the T* stored in node n
  doubleFree,   \* a delete was applied to a cell that was not live
  valLive,      \* caller-owned T objects that have not been released
  inserted,     \* ghost: key -> value of the inserts since the last clear()
  last,         \* the most recent call and its outcome
  cells,        \* the heap cells the allocator can hand out in this run
  rvi           \* the running call of read_validated_input, if any

vars == <<alive, charSigned, live, childs, object, doubleFree, valLive,
          inserted, last, cells, rvi>>

\* The heap as one value, so that the operations can be written as functions.
Heap == [live |-> live, childs |-> childs, object |-> object,
         doubleFree |-> doubleFree, vals |-> valLive, cells |-> cells]

\* ------------------------------------------------------------ characters
\* The value of a byte seen through the type char.
AsChar(b) == IF charSigned /\ b >= 128 THEN b - 256 ELSE b

\* A childs map ordered by std::greater<char>.
CharGreater(a, b) == AsChar(a) > AsChar(b)

\* std::less<char>, the ordering of the childs map.
CharLess(a, b) == AsChar(a) < AsChar(b)

\* The keys of a map in the order a range-for visits them.
RECURSIVE MapOrder(_)
MapOrder(S) ==
  IF S = {} THEN <<>>
  ELSE LET m == CHOOSE x \in S : \A y \in S \ {x} : CharLess(x, y)
       IN <<m>> \o MapOrder(S \ {m})

\* ------------------------------------------------------------------ find
RECURSIVE FindFrom(_, _, _)
FindFrom(h, cur, prefix) ==
  IF prefix = <<>> THEN cur
  ELSE IF Head(prefix) \notin DOMAIN h.childs[cur] THEN nullptr
  ELSE FindFrom(h, h.childs[cur][Head(prefix)], Tail(prefix))

find(h, prefix) == FindFrom(h, Root, prefix)

\* ------------------------------------------------------------- traversal
\* The calls func(object) made by traverse_recursive on node n, in order.
\* Each call is annotated with the node and the key path it was made for.
RECURSIVE Visits(_, _, _)
RECURSIVE VisitChildren(_, _, _, _)

\* A loop over childs that returns after the first child.
VisitChildrenFirst(h, n, path, order) ==
  IF order = <<>> THEN <<>>
  ELSE Visits(h, h.childs[n][Head(order)], Append(path, Head(order)))

VisitChildren(h, n, path, order) ==
  IF order = <<>> THEN <<>>
  ELSE Visits(h, h.childs[n][Head(order)], Append(path, Head(order)))
       \o VisitChildren(h, n, path, Tail(order))

Visits(h, n, path) ==
  (IF h.object[n] # nullptr
     THEN <<[node |-> n, key |-> path, obj |-> h.object[n]]>>
     ELSE <<>>)
  \o VisitChildren(h, n, path, MapOrder(DOMAIN h.childs[n]))

ObjsOf(vs) == [i \in 1..Len(vs) |-> vs[i].obj]

traverse_recursive(h, n) == ObjsOf(Visits(h, n, <<>>))

\* get_all_objects that assigns the matches to res instead of pushing them.
get_all_objects_assign(h, n, res) == traverse_recursive(h, n)

\* get_all_objects: the visitor pushes each object onto res.
get_all_objects(h, n, res) == res \o traverse_recursive(h, n)

\* --------------------------------------------------------------- queries
word_exist(h, word) ==
  LET cur == find(h, word)
  IN IF cur # nullptr /\ h.object[cur] # nullptr THEN h.object[cur] ELSE nullptr

\* prefix_exist that answers like word_exist (a value must be stored there).
prefix_exist_word(h, prefix) ==
  find(h, prefix) # nullptr /\ h.object[find(h, prefix)] # nullptr

\* prefix_exist that reports a node only when something hangs below it.
prefix_exist_nonempty(h, prefix) ==
  find(h, prefix) # nullptr /\ DOMAIN h.childs[find(h, prefix)] # {}

prefix_exist(h, prefix) == find(h, prefix) # nullptr

traverse(h) == traverse_recursive(h, Root)

auto_complete(h, prefix, res) ==
  LET root == find(h, prefix)
  IN IF root # nullptr THEN get_all_objects(h, root, res) ELSE res

\* The visits behind auto_complete(prefix, {}), with their full keys.
CollectVisits(h, prefix) ==
  LET root == find(h, prefix)
  IN IF root # nullptr THEN Visits(h, root, prefix) ELSE <<>>

\* ---------------------------------------------------------------- insert
\* operator new: some cell that holds no live node.
NewCell(h) == CHOOSE n \in h.cells \ {Root} : n \notin h.live
               /\ \A m \in h.cells \ {Root} : m \notin h.live => n <= m

\* A new node whose object is not initialised to nullptr and holds a stale
\* pointer.
LinkStale(h, cur, c, n) ==
  [h EXCEPT
     !.live = @ \cup {n},
     !.childs = [m \in DOMAIN @ \cup {n} |->
                   IF m = n THEN NewDictionary.childs
                   ELSE IF m = cur
                     THEN [d \in DOMAIN @[cur] \cup {c} |->
                             IF d = c THEN n ELSE @[cur][d]]
                   ELSE @[m]],
     !.object = [m \in DOMAIN @ \cup {n} |-> IF m = n THEN 1 ELSE @[m]]]

\* The step of insert that links a new node for character c below cur.
Link(h, cur, c, n) ==
  [h EXCEPT
     !.live = @ \cup {n},
     !.childs = [m \in DOMAIN @ \cup {n} |->
                   IF m = n THEN NewDictionary.childs
                   ELSE IF m = cur
                     THEN [d \in DOMAIN @[cur] \cup {c} |->
                             IF d = c THEN n ELSE @[cur][d]]
                   ELSE @[m]],
     !.object = [m \in DOMAIN @ \cup {n} |->
                   IF m = n THEN NewDictionary.object ELSE @[m]]]

\* insert with cur->object = object placed inside the loop.
RECURSIVE InsertFromAll(_, _, _, _)
InsertFromAll(h, cur, obj, word) ==
  LET h0 == [h EXCEPT !.object[cur] = obj]
  IN IF word = <<>> THEN h0
     ELSE LET c == Head(word)
              has == c \in DOMAIN h0.childs[cur] /\ h0.childs[cur][c] # nullptr
          IN IF has
               THEN InsertFromAll(h0, h0.childs[cur][c], obj, Tail(word))
               ELSE InsertFromAll(Link(h0, cur, c, NewCell(h0)), NewCell(h0),
                                  obj, Tail(word))

\* insert that keeps a value already stored at the terminal node.
RECURSIVE InsertFromKeep(_, _, _, _)
InsertFromKeep(h, cur, obj, word) ==
  IF word = <<>>
    THEN IF h.object[cur] = nullptr THEN [h EXCEPT !.object[cur] = obj] ELSE h
  ELSE LET c == Head(word)
           has == c \in DOMAIN h.childs[cur] /\ h.childs[cur][c] # nullptr
       IN IF has
            THEN InsertFromKeep(h, h.childs[cur][c], obj, Tail(word))
            ELSE InsertFromKeep(Link(h, cur, c, NewCell(h)), NewCell(h),
                                obj, Tail(word))

\* insert without the test of !child: a child that exists is replaced by a
\* new node whenever the allocator has a cell left.
RECURSIVE InsertFromFresh(_, _, _, _)
InsertFromFresh(h, cur, obj, word) ==
  IF word = <<>> THEN [h EXCEPT !.object[cur] = obj]
  ELSE LET c == Head(word)
           has == c \in DOMAIN h.childs[cur] /\ h.childs[cur][c] # nullptr
           free == (h.cells \ {Root}) \ h.live
       IN IF has /\ free = {}
            THEN InsertFromFresh(h, h.childs[cur][c], obj, Tail(word))
          ELSE IF free = {} THEN [h EXCEPT !.object[cur] = obj]
            ELSE InsertFromFresh(Link(h, cur, c, NewCell(h)), NewCell(h),
                                 obj, Tail(word))

\* insert that, for a missing character, links a sibling that exists instead
\* of a new node.
RECURSIVE InsertFromAlias(_, _, _, _)
InsertFromAlias(h, cur, obj, word) ==
  IF word = <<>> THEN [h EXCEPT !.object[cur] = obj]
  ELSE LET c == Head(word)
           has == c \in DOMAIN h.childs[cur] /\ h.childs[cur][c] # nullptr
           sibs == DOMAIN h.childs[cur]
       IN IF has
            THEN InsertFromAlias(h, h.childs[cur][c], obj, Tail(word))
          ELSE IF sibs # {}
            THEN LET sib == h.childs[cur][CHOOSE d \in sibs : TRUE]
                     h1 == [h EXCEPT !.childs[cur] =
                              [d \in sibs \cup {c} |->
                                 IF d = c THEN sib ELSE @[d]]]
                 IN InsertFromAlias(h1, sib, obj, Tail(word))
          ELSE InsertFromAlias(Link(h, cur, c, NewCell(h)), NewCell(h),
                               obj, Tail(word))

\* insert that resets the childs map of the node the word ends at.
RECURSIVE InsertFromTruncate(_, _, _, _)
InsertFromTruncate(h, cur, obj, word) ==
  IF word = <<>>
    THEN [h EXCEPT !.object[cur] = obj, !.childs[cur] = EmptyMap]
  ELSE LET c == Head(word)
           has == c \in DOMAIN h.childs[cur] /\ h.childs[cur][c] # nullptr
       IN IF has
            THEN InsertFromTruncate(h, h.childs[cur][c], obj, Tail(word))
            ELSE InsertFromTruncate(Link(h, cur, c, NewCell(h)), NewCell(h),
                                    obj, Tail(word))

RECURSIVE InsertFrom(_, _, _, _)
InsertFrom(h, cur, obj, word) ==
  IF word = <<>> THEN [h EXCEPT !.object[cur] = obj]
  ELSE LET c == Head(word)
           has == c \in DOMAIN h.childs[cur] /\ h.childs[cur][c] # nullptr
       IN IF has
            THEN InsertFrom(h, h.childs[cur][c], obj, Tail(word))
            ELSE InsertFrom(Link(h, cur, c, NewCell(h)), NewCell(h),
                            obj, Tail(word))

insert(h, obj, word) == InsertFrom(h, Root, obj, word)

\* Number of nodes insert(word) has to allocate.
RECURSIVE Missing(_, _, _)
Missing(h, cur, word) ==
  IF word = <<>> THEN 0
  ELSE IF cur # nullptr /\ Head(word) \in DOMAIN h.childs[cur]
    THEN Missing(h, h.childs[cur][Head(word)], Tail(word))
    ELSE 1 + Missing(h, nullptr, Tail(word))

\* ----------------------------------------------------------------- clear
RECURSIVE clear(_, _)
RECURSIVE DeleteAll(_, _, _)

\* operator delete on a cell: the storage goes back to the allocator.
Release(h, n) ==
  [h EXCEPT !.live = @ \ {n},
            !.childs = [m \in DOMAIN @ \ {n} |-> @[m]],
            !.object = [m \in DOMAIN @ \ {n} |-> @[m]]]

\* A destructor that releases the node without running clear() on it.
DeleteNodeShallow(h, child) ==
  IF child = nullptr THEN h
  ELSE IF child \notin h.live THEN [h EXCEPT !.doubleFree = TRUE]
  ELSE Release(h, child)

\* A destructor that also deletes the object the node points to.
DeleteNodeOwning(h, child) ==
  IF child = nullptr THEN h
  ELSE IF child \notin h.live THEN [h EXCEPT !.doubleFree = TRUE]
  ELSE LET h1 == [h EXCEPT !.vals = @ \ {h.object[child]}]
       IN Release(clear(h1, child), child)

\* delete child: ~Dictionary() runs clear() on the child, then the cell is
\* released.  The object the child points to is not touched.
DeleteNode(h, child) ==
  IF child = nullptr THEN h
  ELSE IF child \notin h.live THEN [h EXCEPT !.doubleFree = TRUE]
  ELSE Release(clear(h, child), child)

DeleteAll(h, n, order) ==
  IF order = <<>> THEN h
  ELSE DeleteAll(DeleteNode(h, h.childs[n][Head(order)]), n, Tail(order))

clear(h, n) ==
  LET h1 == DeleteAll(h, n, MapOrder(DOMAIN h.childs[n]))
  IN [h1 EXCEPT !.childs[n] = EmptyMap]

\* ~Dictionary() of the container itself.
Destructor(h) == Release(clear(h, Root), Root)

\* ------------------------------------------------- effects of the queries
\* A lookup that walks with childs[c] the way insert does, creating the nodes
\* that are missing on the way.
AfterFindCreating(h, prefix) ==
  IF Missing(h, Root, prefix) <= Cardinality((h.cells \ {Root}) \ h.live)
    THEN InsertFrom(h, Root, word_exist(h, prefix), prefix)
    ELSE h

\* The heap after find(prefix): find is a const member and walks with
\* childs.find(c), which adds no entry to the map.
AfterFind(h, prefix) == h

\* The heap after traverse_recursive: a const member that only reads object
\* and iterates over childs.
AfterTraverse(h) == h

\* ---------------------------------------------------- read_validated_input
\* No call of read_validated_input is running.
RviIdle == [pc |-> "idle"]

\* The characters typed on std::cin: ' ', '1' and 'y'.
LineChars == {32, 49, 121}
Lines == UNION {[1..k -> LineChars] : k \in 0..LineLen}

IsSpace(c) == c = 32
IsDigit(c) == c >= 48 /\ c <= 57

\* The sentry of operator>>: leading whitespace is skipped.
RECURSIVE SkipWs(_)
SkipWs(l) == IF l # <<>> /\ IsSpace(Head(l)) THEN SkipWs(Tail(l)) ELSE l

\* The digits num_get accumulates, as a sequence, and their value.
RECURSIVE DigitRun(_)
DigitRun(l) ==
  IF l # <<>> /\ IsDigit(Head(l)) THEN <<Head(l)>> \o DigitRun(Tail(l))
  ELSE <<>>

RECURSIVE Num(_)
Num(d) == IF d = <<>> THEN 0 ELSE 10 * Num(SubSeq(d, 1, Len(d) - 1)) + (d[Len(d)] - 48)

\* ss >> value on a stream holding line: whether the extraction succeeded,
\* the value left in value, and whether eofbit is set afterwards.
\*   int : digits are consumed until a character that is no digit or the end
\*         of the stream; reaching the end sets eofbit.
\*   char: one character is taken with sbumpc(); nothing is read after it, so
\*         eofbit is set only when the stream ran out before a character.
Extract(T, line, value) ==
  LET rest == SkipWs(line)
  IN IF rest = <<>>
       THEN [ok |-> FALSE, eof |-> TRUE,
             value |-> IF T = "int" THEN 0 ELSE value]
     ELSE IF T = "char"
       THEN [ok |-> TRUE, eof |-> FALSE, value |-> Head(rest)]
     ELSE LET d == DigitRun(rest)
              atEnd == Len(d) = Len(rest)
          IN IF d = <<>> THEN [ok |-> FALSE, eof |-> atEnd, value |-> 0]
             ELSE IF Num(d) > 2147483647
               THEN [ok |-> FALSE, eof |-> atEnd, value |-> 2147483647]
             ELSE [ok |-> TRUE, eof |-> atEnd, value |-> Num(d)]

\* The validators a caller passes: nullptr, or a predicate on the value.
Validators == {"nullptr", "below_ten"}
Validate(validator, value) == validator = "nullptr" \/ value < 10

\* One round of the while (true) loop on a line that getline delivered.
RviRound(r, line) ==
  LET x == Extract(r.T, line, r.value)
      r1 == [r EXCEPT !.value = x.value, !.lines = Append(@, line)]
  IN IF x.ok /\ x.eof
       THEN IF Validate(r.validator, x.value)
              THEN [r1 EXCEPT !.pc = "returned"]
              ELSE [r1 EXCEPT !.cout =
                      Append(@, [indent |-> r.indent, text |-> "error_message"])]
       ELSE [r1 EXCEPT !.cout =
               Append(@, [indent |-> r.indent, text |-> "Invalid format"])]

\* ------------------------------------------------------------ the calls
Call(op, key, val, old, in, out) ==
  [op |-> op, key |-> key, val |-> val, old |-> old, in |-> in, out |-> out]

SetHeap(h) ==
  /\ live' = h.live
  /\ childs' = h.childs
  /\ object' = h.object
  /\ doubleFree' = h.doubleFree
  /\ valLive' = h.vals

Init ==
  /\ alive = TRUE
  /\ charSigned \in BOOLEAN
  /\ live = {Root}
  /\ childs = [n \in {Root} |-> NewDictionary.childs]
  /\ object = [n \in {Root} |-> NewDictionary.object]
  /\ doubleFree = FALSE
  /\ valLive = Vals
  /\ inserted = EmptyMap
  /\ last = Call("construct", <<>>, nullptr, nullptr, <<>>, <<>>)
  /\ cells = NodeIds
  /\ rvi = RviIdle

Insert(obj, word) ==
  /\ alive
  /\ Missing(Heap, Root, word) <= Cardinality((cells \ {Root}) \ live)
  /\ SetHeap(insert(Heap, obj, word))
  /\ inserted' = [k \in DOMAIN inserted \cup {word} |->
                    IF k = word THEN obj ELSE inserted[k]]
  /\ last' = Call("insert", word, obj, word_exist(Heap, word), <<>>, <<>>)
  /\ UNCHANGED <<alive, charSigned, cells, rvi>>

Clear ==
  /\ alive
  /\ SetHeap(clear(Heap, Root))
  /\ inserted' = EmptyMap
  /\ last' = Call("clear", <<>>, nullptr, nullptr, <<>>, traverse(Heap))
  /\ UNCHANGED <<alive, charSigned, cells, rvi>>

WordExist(word) ==
  /\ alive
  /\ last' = Call("word_exist", word, nullptr, nullptr, <<>>,
                  word_exist(Heap, word))
  /\ SetHeap(AfterFind(Heap, word))
  /\ UNCHANGED <<alive, charSigned, inserted, cells, rvi>>

PrefixExist(prefix) ==
  /\ alive
  /\ last' = Call("prefix_exist", prefix, nullptr, nullptr, <<>>,
                  prefix_exist(Heap, prefix))
  /\ SetHeap(AfterFind(Heap, prefix))
  /\ UNCHANGED <<alive, charSigned, inserted, cells, rvi>>

AutoComplete(prefix, res) ==
  /\ alive
  /\ last' = Call("auto_complete", prefix, nullptr, nullptr, res,
                  auto_complete(Heap, prefix, res))
  /\ SetHeap(AfterTraverse(AfterFind(Heap, prefix)))
  /\ UNCHANGED <<alive, charSigned, inserted, cells, rvi>>

Traverse ==
  /\ alive
  /\ last' = Call("traverse", <<>>, nullptr, nullptr, <<>>, traverse(Heap))
  /\ SetHeap(AfterTraverse(Heap))
  /\ UNCHANGED <<alive, charSigned, inserted, cells, rvi>>

Destroy ==
  /\ alive
  /\ alive' = FALSE
  /\ SetHeap(Destructor(Heap))
  /\ inserted' = EmptyMap
  /\ last' = Call("destroy", <<>>, nullptr, nullptr, <<>>, traverse(Heap))
  /\ UNCHANGED <<charSigned, cells, rvi>>

\* Dictionary() = default, in the storage a destroyed container left.
Construct ==
  /\ ~alive
  /\ alive' = TRUE
  /\ live' = live \cup {Root}
  /\ childs' = [n \in live \cup {Root} |->
                  IF n = Root THEN NewDictionary.childs ELSE childs[n]]
  /\ object' = [n \in live \cup {Root} |->
                  IF n = Root THEN NewDictionary.object ELSE object[n]]
  /\ inserted' = EmptyMap
  /\ last' = Call("construct", <<>>, nullptr, nullptr, <<>>, <<>>)
  /\ UNCHANGED <<charSigned, doubleFree, valLive, cells, rvi>>

\* Vectors the caller may hand to auto_complete.
ResInputs == {<<>>, <<1>>}

Next ==
  \/ \E obj \in Vals \cup {nullptr}, word \in Keys : Insert(obj, word)
  \/ Clear
  \/ \E word \in Keys : WordExist(word)
  \/ \E prefix \in Keys : PrefixExist(prefix)
  \/ \E prefix \in Keys, res \in ResInputs : AutoComplete(prefix, res)
  \/ Traverse
  \/ Destroy
  \/ Construct

Spec == Init /\ [][Next]_vars

\* ------------------------------------------------ the four-word scenario
\* A caller that inserts "cat", "car", "card" and "dog", each once and in any
\* order, into a new container and queries it in between.  The four values
\* A, B, C, D are the T objects 1, 2, 3, 4.
ScenInserts ==
  { [key |-> <<99, 97, 116>>, val |-> 1],          \* "cat"  -> A
    [key |-> <<99, 97, 114>>, val |-> 2],          \* "car"  -> B
    [key |-> <<99, 97, 114, 100>>, val |-> 3],     \* "card" -> C
    [key |-> <<100, 111, 103>>, val |-> 4] }       \* "dog"  -> D

ScenKeys == {p.key : p \in ScenInserts}
ScenVals == {p.val : p \in ScenInserts}

\* The arguments of the caller's queries: "ca", "do", "dog", "x".
ScenQueries == { <<99, 97>>, <<100, 111>>, <<100, 111, 103>>, <<120>> }

ScenInit ==
  /\ alive = TRUE
  /\ charSigned \in BOOLEAN
  /\ live = {Root}
  /\ childs = [n \in {Root} |-> NewDictionary.childs]
  /\ object = [n \in {Root} |-> NewDictionary.object]
  /\ doubleFree = FALSE
  /\ valLive = ScenVals
  /\ inserted = EmptyMap
  /\ last = Call("construct", <<>>, nullptr, nullptr, <<>>, <<>>)
  /\ cells = 0..ScenarioCells
  /\ rvi = RviIdle

ScenNext ==
  \/ \E p \in ScenInserts :
       p.key \notin DOMAIN inserted /\ Insert(p.val, p.key)
  \/ \E word \in ScenQueries : WordExist(word)
  \/ \E prefix \in ScenQueries : PrefixExist(prefix)
  \/ \E prefix \in ScenQueries : AutoComplete(prefix, <<>>)

ScenSpec == ScenInit /\ [][ScenNext]_vars

\* ------------------------------------------------ the console-input helper
\* A caller of read_validated_input<T>; the container is left alone.
InputInit == Init

\* The call: T value is not initialised, the prompt is written with
\* indent_tabs tabs and the messages get one tab more.
RviCall(T, indent_tabs, validator, v0) ==
  /\ rvi.pc = "idle"
  /\ rvi' = [pc |-> "reading", T |-> T, validator |-> validator,
             indent |-> indent_tabs + 1, value |-> v0, lines |-> <<>>,
             stdinEof |-> FALSE,
             cout |-> <<[indent |-> indent_tabs, text |-> "prompt"]>>]
  /\ UNCHANGED <<alive, charSigned, live, childs, object, doubleFree,
                 valLive, inserted, last, cells>>

\* A round of the loop in which getline reads a line.
RviLine(line) ==
  /\ rvi.pc = "reading"
  /\ ~rvi.stdinEof
  /\ Len(rvi.lines) < MaxLines
  /\ rvi' = RviRound(rvi, line)
  /\ UNCHANGED <<alive, charSigned, live, childs, object, doubleFree,
                 valLive, inserted, last, cells>>

\* A round of the loop at the end of std::cin: getline fails and leaves line
\* empty; std::cin stays failed for every round after it.
RviEof ==
  /\ rvi.pc = "reading"
  /\ Len(rvi.lines) < MaxLines
  /\ rvi' = [RviRound(rvi, <<>>) EXCEPT !.stdinEof = TRUE]
  /\ UNCHANGED <<alive, charSigned, live, childs, object, doubleFree,
                 valLive, inserted, last, cells>>

\* return value: the caller has the result and may call again.
RviReturn ==
  /\ rvi.pc = "returned"
  /\ rvi' = RviIdle
  /\ UNCHANGED <<alive, charSigned, live, childs, object, doubleFree,
                 valLive, inserted, last, cells>>

InputNext ==
  \/ \E T \in {"int", "char"}, indent_tabs \in {0, 1},
        validator \in Validators, v0 \in {0, 1} :
       RviCall(T, indent_tabs, validator, v0)
  \/ \E line \in Lines : RviLine(line)
  \/ RviEof
  \/ RviReturn

InputSpec == InputInit /\ [][InputNext]_vars

\* ------------------------------------------------------------ properties
\* Byte-wise lexicographic order of strings (std::string::compare): a proper
\* prefix first, otherwise the first differing byte decides.
LexLess(a, b) ==
  \/ Len(a) < Len(b) /\ IsPrefix(a, b)
  \/ \E i \in 1..Len(a) :
       /\ i <= Len(b)
       /\ SubSeq(a, 1, i - 1) = SubSeq(b, 1, i - 1)
       /\ a[i] < b[i]

\* The keys inserted since the last clear() that now carry a value and
\* start with P.
KeysUnder(P) ==
  {K \in DOMAIN inserted : IsPrefix(P, K) /\ inserted[K] # nullptr}

\* What every query answers on a freshly constructed container.
LikeFresh ==
  /\ traverse(Heap) = <<>>
  /\ \A P \in Strs :
       /\ word_exist(Heap, P) = nullptr
       /\ prefix_exist(Heap, P) = (P = <<>>)
       /\ auto_complete(Heap, P, <<>>) = <<>>

\* C1: after insert(V, K) with a non-null V, word_exist(K) returns V, and it
\* keeps doing so across inserts of other keys and queries, until K is
\* inserted again or the container is cleared.
C1_LookupReturnsInserted ==
  alive => \A K \in DOMAIN inserted :
             inserted[K] # nullptr => word_exist(Heap, K) = inserted[K]

C1_Witness ==
  /\ alive
  /\ last.op = "insert"
  /\ last.key # <<>>
  /\ <<>> \in DOMAIN inserted
  /\ inserted[<<>>] # nullptr
  /\ inserted[<<>>] # last.val
  /\ word_exist(Heap, <<>>) = inserted[<<>>]

\* C2: after inserts followed by clear(), every query answers as on a freshly
\* constructed container.
C2_ClearLikeFresh == (alive /\ last.op = "clear") => LikeFresh

\* C3: auto_complete(P, {}) yields exactly the current values of the inserted
\* keys that start with P, one entry per such key, and nothing when no
\* inserted key starts with P.
C3_CollectExact ==
  alive => \A P \in Strs :
    LET vs == CollectVisits(Heap, P)
    IN /\ auto_complete(Heap, P, <<>>) = ObjsOf(vs)
       /\ {vs[i].key : i \in 1..Len(vs)} = KeysUnder(P)
       /\ Len(vs) = Cardinality(KeysUnder(P))
       /\ \A i \in 1..Len(vs) :
            vs[i].key \in DOMAIN inserted => vs[i].obj = inserted[vs[i].key]

\* C4: the values auto_complete(P, {}) yields are in byte-wise lexicographic
\* order of their full keys, for keys of any single-byte characters.
C4_CollectLexOrder ==
  alive => \A P \in Strs :
    LET vs == CollectVisits(Heap, P)
    IN \A i, j \in 1..Len(vs) : i < j => LexLess(vs[i].key, vs[j].key)

\* C5: inserting V2 at a key that holds V1 replaces V1: word_exist(K) returns
\* V2 and auto_complete(P, {}) has, for every prefix P of K, exactly one entry
\* for K, carrying V2.
C5_ReinsertReplaces ==
  (alive /\ last.op = "insert" /\ last.val # nullptr /\ last.old # nullptr) =>
    /\ word_exist(Heap, last.key) = last.val
    /\ \A P \in Strs : IsPrefix(P, last.key) =>
         LET vs == CollectVisits(Heap, P)
             at == {i \in 1..Len(vs) : vs[i].key = last.key}
         IN /\ Cardinality(at) = 1
            /\ \A i \in at : vs[i].obj = last.val
            /\ auto_complete(Heap, P, <<>>) = ObjsOf(vs)

C5_Witness ==
  /\ alive
  /\ last.op = "insert"
  /\ Len(last.key) = 2
  /\ last.val # nullptr
  /\ last.old # nullptr
  /\ last.old # last.val
  /\ word_exist(Heap, last.key) = last.val

\* C6 as stated: prefix_exist(P) holds iff P is a prefix of a key inserted
\* since construction or the last clear().
C6_PrefixIffInserted ==
  alive => \A P \in Strs :
    prefix_exist(Heap, P) <=> \E K \in DOMAIN inserted : IsPrefix(P, K)

\* C6 as amended: for a non-empty P, prefix_exist(P) holds iff P is a prefix
\* of a key inserted since construction or the last clear(); for the empty P
\* it holds whether or not a key was inserted.
C6_PrefixIffInsertedOrEmpty ==
  alive => \A P \in Strs :
    prefix_exist(Heap, P) <=>
      (P = <<>> \/ \E K \in DOMAIN inserted : IsPrefix(P, K))

C6_Witness ==
  /\ alive
  /\ last.op = "prefix_exist"
  /\ last.key # <<>>
  /\ last.out = TRUE
  /\ last.key \notin DOMAIN inserted
  /\ \E K \in DOMAIN inserted : IsPrefix(last.key, K)

\* C7: prefix_exist("") is true in every state of a constructed container:
\* fresh, after inserts, after clear().
C7_EmptyPrefixExists == alive => prefix_exist(Heap, <<>>)

C7_Witness ==
  /\ alive
  /\ last.op = "prefix_exist"
  /\ last.key = <<>>
  /\ last.out = TRUE
  /\ DOMAIN childs[Root] = {}
  /\ object[Root] = nullptr

\* C8: word_exist(K) is not found for every K that was never inserted: no key
\* is found on a new container, and a key that is not found becomes found only
\* by an insert of that very key (never by an insert of an extension or of a
\* prefix of it, nor by any other call).
C8_NeverInsertedNotFound ==
  /\ \A K \in Strs : word_exist(Heap, K) = nullptr
  /\ [][\A K \in Strs :
          (alive' /\ word_exist(Heap, K)' # nullptr) =>
            \/ alive /\ word_exist(Heap, K) # nullptr
            \/ last'.op = "insert" /\ last'.key = K]_vars

C8_Witness ==
  /\ alive
  /\ last.op = "word_exist"
  /\ last.key = <<CharA>>
  /\ last.out = nullptr
  /\ last.key \notin DOMAIN inserted
  /\ <<>> \in DOMAIN inserted
  /\ <<CharA, CharA>> \in DOMAIN inserted
  /\ inserted[<<>>] # nullptr
  /\ inserted[<<CharA, CharA>>] # nullptr

\* C9: traverse calls the visitor once for every node of the tree that stores
\* a value, and the values it passes are the sequence auto_complete("", {})
\* returns.
C9_TraverseVisitsAllOnce ==
  alive =>
    LET vs == Visits(Heap, Root, <<>>)
    IN /\ traverse(Heap) = ObjsOf(vs)
       /\ \A i, j \in 1..Len(vs) : vs[i].node = vs[j].node => i = j
       /\ {vs[i].node : i \in 1..Len(vs)} = {n \in live : object[n] # nullptr}
       /\ \A i \in 1..Len(vs) : vs[i].obj = object[vs[i].node]
       /\ traverse(Heap) = auto_complete(Heap, <<>>, <<>>)

C9_Witness ==
  /\ alive
  /\ last.op = "traverse"
  /\ Len(last.out) = 3
  /\ last.out = auto_complete(Heap, <<>>, <<>>)

\* C10: no call releases a caller-owned value: insert (overwriting included),
\* the queries, clear() and the destructor leave the set of live values as it
\* was; only nodes are freed.
C10_ValuesNotReleased == [][valLive' = valLive]_vars

C10_Witness ==
  /\ last.op \in {"clear", "destroy"}
  /\ Len(last.out) >= 2
  /\ live \subseteq {Root}
  /\ valLive = Vals

\* C11: once "cat"->A, "car"->B, "card"->C and "dog"->D have been inserted
\* into an empty container, in whatever order, auto_complete("ca") yields
\* [B, C, A], word_exist("ca") finds nothing, prefix_exist("do") is true,
\* word_exist("dog") is D and auto_complete("x") yields nothing.
C11_FourWords ==
  DOMAIN inserted = ScenKeys =>
    /\ auto_complete(Heap, <<99, 97>>, <<>>) = <<2, 3, 1>>
    /\ word_exist(Heap, <<99, 97>>) = nullptr
    /\ prefix_exist(Heap, <<100, 111>>)
    /\ word_exist(Heap, <<100, 111, 103>>) = 4
    /\ auto_complete(Heap, <<120>>, <<>>) = <<>>

\* All four words are in and the caller has collected under "ca".
C11_Witness ==
  /\ DOMAIN inserted = ScenKeys
  /\ last.op = "auto_complete"
  /\ last.key = <<99, 97>>
  /\ Len(last.out) = 3

\* What it means for a line to parse completely as a T, stated on the text of
\* the line: optional leading blanks, then a numeral that fits an int (for
\* int) or a single character (for char), and nothing after it.
ParsesCompletely(T, line) ==
  LET tok == SkipWs(line)
  IN IF T = "int"
       THEN /\ tok # <<>>
            /\ \A i \in 1..Len(tok) : IsDigit(tok[i])
            /\ Num(tok) <= 2147483647
       ELSE Len(tok) = 1

ParsedValue(T, line) ==
  LET tok == SkipWs(line) IN IF T = "int" THEN Num(tok) ELSE Head(tok)

\* A line the helper is to return on.
Acceptable(r, line) ==
  /\ ParsesCompletely(r.T, line)
  /\ Validate(r.validator, ParsedValue(r.T, line))

\* C12: read_validated_input returns on the first line that parses completely
\* as a T and that the validator (if any) accepts, with the value parsed from
\* that line; every line before it is rejected with exactly one message: the
\* format message when the line does not parse, the caller's error message
\* when the validator rejects the value.
C12_ReturnsFirstValidLine ==
  rvi.pc \in {"reading", "returned"} =>
    LET n == Len(rvi.lines)
        rejected == IF rvi.pc = "returned" THEN n - 1 ELSE n
    IN /\ Len(rvi.cout) = 1 + rejected
       /\ \A i \in 1..rejected :
            /\ ~Acceptable(rvi, rvi.lines[i])
            /\ rvi.cout[i + 1].text =
                 IF ParsesCompletely(rvi.T, rvi.lines[i])
                   THEN "error_message" ELSE "Invalid format"
       /\ rvi.pc = "returned" =>
            /\ Acceptable(rvi, rvi.lines[n])
            /\ rvi.value = ParsedValue(rvi.T, rvi.lines[n])

\* The calls that only read the container.
QueryOps == {"word_exist", "prefix_exist", "auto_complete", "traverse"}

\* C13: word_exist, prefix_exist, auto_complete and traverse are pure reads:
\* for every argument, keys and prefixes without a path included, the call
\* leaves the set of nodes, the child edges and every stored value as they
\* were; a lookup that fails creates no node.
C13_QueriesArePure ==
  [][last'.op \in QueryOps =>
       /\ live' = live
       /\ childs' = childs
       /\ object' = object]_vars

\* A lookup of a key without a path has run on a container that holds nodes
\* and could still allocate.
C13_Witness ==
  /\ last.op = "word_exist"
  /\ find(Heap, last.key) = nullptr
  /\ live # {Root}
  /\ (cells \ {Root}) \ live # {}

\* C14: insert(V, K) changes the stored value of exactly one key: for every
\* other key K2, a prefix or an extension of K or neither, word_exist(K2)
\* returns the same before and after the call.
C14_InsertTouchesOneKey ==
  [][last'.op = "insert" =>
       \A K2 \in Strs \ {last'.key} :
          word_exist(Heap, K2)' = word_exist(Heap, K2)]_vars

\* An insert at a key whose proper prefix and whose extension both hold a
\* value.
C14_Witness ==
  /\ last.op = "insert"
  /\ Len(last.key) = 1
  /\ word_exist(Heap, <<>>) # nullptr
  /\ \E K2 \in Keys :
       /\ Len(K2) = 2
       /\ IsPrefix(last.key, K2)
       /\ word_exist(Heap, K2) # nullptr

\* The prefixes of K of length 1..Len(K): the strings insert(K) walks through.
PathPrefixes(K) == {SubSeq(K, 1, i) : i \in 1..Len(K)}

\* C15: insert(V, K) creates a node exactly for each prefix of K that had no
\* node before and removes no node; every edge that existed is kept and the
\* only new edges are those to the new nodes.  Re-inserting a key whose path
\* exists leaves the node count and all edges unchanged.
C15_InsertCreatesMissingOnly ==
  [][last'.op = "insert" =>
       LET K == last'.key
           absent == {P \in PathPrefixes(K) : find(Heap, P) = nullptr}
       IN /\ live \subseteq live'
          /\ Cardinality(live' \ live) = Cardinality(absent)
          /\ \A P \in PathPrefixes(K) :
               /\ find(Heap, P)' # nullptr
               /\ IF P \in absent
                    THEN find(Heap, P)' \in live' \ live
                    ELSE find(Heap, P)' = find(Heap, P)
          /\ \A n \in live : \A c \in DOMAIN childs[n] :
               c \in DOMAIN childs'[n] /\ childs'[n][c] = childs[n][c]
          /\ \A n \in live' : \A c \in DOMAIN childs'[n] :
               \/ n \in live /\ c \in DOMAIN childs[n]
               \/ childs'[n][c] \in live' \ live
          /\ absent = {} => live' = live /\ childs' = childs]_vars

\* A key of two characters that held a value has been inserted again.
C15_Witness ==
  /\ last.op = "insert"
  /\ Len(last.key) = 2
  /\ last.old # nullptr
  /\ Cardinality(live) = 3

\* The child edges <<parent, character, child>> of the live nodes.
Edges ==
  UNION {{<<n, c, childs[n][c]>> : c \in DOMAIN childs[n]} : n \in live}

\* C16: the nodes form a tree rooted at the container: every child pointer
\* leads to a live node other than the root, every non-root node has exactly
\* one parent edge and is reached from the root by exactly one character
\* sequence, and no node is its own descendant.  (At most one child per
\* character holds by the type of childs: a map has one entry per key.)
C16_NodesFormTree ==
  /\ \A e \in Edges : e[3] \in live \ {Root}
  /\ \A n \in live \ {Root} : Cardinality({e \in Edges : e[3] = n}) = 1
  /\ alive =>
       /\ Root \in live
       /\ \A n \in live \ {Root} :
            Cardinality({P \in Strs : find(Heap, P) = n}) = 1
       /\ \A n \in live : \A P \in Strs \ {<<>>} : FindFrom(Heap, n, P) # n

\* A container with a branching root: two children, one of them new.
C16_Witness ==
  /\ alive
  /\ last.op = "insert"
  /\ Cardinality(DOMAIN childs[Root]) = 2
  /\ Cardinality(live) = 3

\* C17: no node is destroyed except by clear() or destruction: a step of
\* insert or of a query removes no node, and every prefix for which
\* prefix_exist was true is one for which it is still true after the step.
C17_PrefixStaysUntilClear ==
  [][last'.op \in QueryOps \cup {"insert"} =>
       /\ live \subseteq live'
       /\ \A P \in Strs :
            prefix_exist(Heap, P) => prefix_exist(Heap, P)']_vars

\* An insert at a key of one character has run while a longer key below it
\* had a path, and the longer key still has it.
C17_Witness ==
  /\ last.op = "insert"
  /\ Len(last.key) = 1
  /\ last.old # nullptr
  /\ \E K2 \in Keys :
       Len(K2) = 2 /\ IsPrefix(last.key, K2) /\ prefix_exist(Heap, K2)

\* C18: clear() and the destructor free every allocated non-root node exactly
\* once: no delete hits a cell that is not live, after clear() only the root
\* is live and it has no children, after destruction no node is live, no
\* child pointer leads to a freed cell, and while the container is alive
\* every live node is reached from the root (nothing has leaked).
C18_FreesEveryNodeOnce ==
  /\ ~doubleFree
  /\ last.op = "clear" => live = {Root} /\ childs[Root] = EmptyMap
  /\ last.op = "destroy" => live = {}
  /\ \A e \in Edges : e[3] \in live
  /\ alive => \A n \in live : \E P \in Strs : find(Heap, P) = n

\* A container holding three values, two of them in nodes of their own, has
\* been destroyed.
C18_Witness ==
  /\ last.op = "destroy"
  /\ Len(last.out) = 3
  /\ ~alive

\* C19: insert(nullptr, K) builds or keeps the path of K and stores no value
\* there: afterwards prefix_exist is true for every prefix of K, word_exist(K)
\* returns null, and neither auto_complete over any prefix of K nor traverse
\* visits K, also when K held a value before.
C19_NullInsertStoresNothing ==
  (last.op = "insert" /\ last.val = nullptr) =>
    /\ \A P \in PathPrefixes(last.key) \cup {<<>>} :
         /\ prefix_exist(Heap, P)
         /\ \A i \in 1..Len(CollectVisits(Heap, P)) :
              CollectVisits(Heap, P)[i].key # last.key
    /\ word_exist(Heap, last.key) = nullptr
    /\ \A i \in 1..Len(Visits(Heap, Root, <<>>)) :
         Visits(Heap, Root, <<>>)[i].key # last.key

\* nullptr has been inserted at a key of two characters that held a value.
C19_Witness ==
  /\ last.op = "insert"
  /\ last.val = nullptr
  /\ last.old # nullptr
  /\ Len(last.key) = 2

====
